---- MODULE Spec2Model ----
(***************************************************************************)
(* The bus sign front end: App.svelte (the refresh cycle, its timer and    *)
(* the view state it commits) and BusTimeEntry.svelte (the per-route       *)
(* countdown and capacity texts).                                          *)
(*                                                                         *)
(* Time is in milliseconds.  A RouteInformation object is a record; an     *)
(* object of the response that has no `arrivals` property is a record      *)
(* without that field, and a response that has no entry for a stop is a    *)
(* function without that key.                                              *)
(***************************************************************************)
EXTENDS Integers, Sequences, FiniteSets, TLC

\* ------------------------------------------------------------------------
\* Bounds of the model
\* ------------------------------------------------------------------------

\* longest route list of one stop in a response
MaxRoutes == 2
\* the clock stops here
MaxTime == 6000
\* longest arrivals list handed to one BusTimeEntry
MaxArrivals == 3

\* ------------------------------------------------------------------------
\* JavaScript numbers, as far as the sort comparator needs them
\* ------------------------------------------------------------------------

Undefined == [t |-> "undefined"]
Infinity == [t |-> "Infinity"]
NegInfinity == [t |-> "-Infinity"]
NaN == [t |-> "NaN"]
Num(n) == [t |-> "number", v |-> n]

\* ToBoolean
Truthy(x) ==
    /\ x.t \notin {"undefined", "NaN"}
    /\ (x.t = "number" => x.v # 0)

\* x || y
Or(x, y) == IF Truthy(x) THEN x ELSE y

\* x - y
Minus(x, y) ==
    CASE x.t = "number" /\ y.t = "number" -> Num(x.v - y.v)
      [] x.t = "Infinity" /\ y.t = "number" -> Infinity
      [] x.t = "number" /\ y.t = "Infinity" -> NegInfinity
      [] OTHER -> NaN

\* a comparator result as Array.prototype.sort reads it: NaN counts as +0
SortSign(x) ==
    CASE x.t = "number" -> (IF x.v < 0 THEN -1 ELSE IF x.v > 0 THEN 1 ELSE 0)
      [] x.t = "Infinity" -> 1
      [] x.t = "-Infinity" -> -1
      [] OTHER -> 0

\* ------------------------------------------------------------------------
\* The prediction feed
\* ------------------------------------------------------------------------

STOP_UC == "7117"
STOP_TEP == "4407"
\* a stop of the feed that the sign does not show
STOP_OTHER == "8154"

\* the route names of BusTimeEntry's colour table, and one that is not in it
Routes == <<"61A", "61B", "61C", "61D", "67", "69", "58", "71B">>

Arrival(s) == [bus_id |-> "3201", capacity |-> "EMPTY", seconds |-> s]

\* what the `arrivals` of a route object of the feed can be
ArrivalsChoices == {<<>>, <<Arrival(0)>>, <<Arrival(20)>>, <<Arrival(50), Arrival(400)>>}

\* the i-th route object of a stop's list: the feed lists each route once, so
\* the route name tells the position the object had in the response
RouteObjects(i) ==
    {[route |-> Routes[i], destination |-> "Downtown", arrivals |-> a] :
        a \in ArrivalsChoices}

RouteLists(n) == {l \in [1..n -> UNION {RouteObjects(i) : i \in 1..n}] :
                     \A i \in 1..n : l[i] \in RouteObjects(i)}

\* n routes with a bus each
BusyList(n) ==
    [i \in 1..n |->
        [route |-> Routes[i], destination |-> "Downtown", arrivals |-> <<Arrival(20)>>]]

\* the same with the k-th object lacking its arrivals property
MalformedList(n, k) ==
    [i \in 1..n |->
        IF i = k THEN [route |-> Routes[i], destination |-> "Downtown"]
        ELSE BusyList(n)[i]]

\* the lists on either side of the density threshold
DensityLists == {BusyList(6), BusyList(7)}

\* two route objects whose route and destination differ and join to the
\* same text
KeyClashList ==
    <<[route |-> "61", destination |-> "C Downtown", arrivals |-> <<Arrival(20)>>],
      [route |-> "61C", destination |-> " Downtown",
       arrivals |-> <<Arrival(50), Arrival(400)>>]>>

\* a route without a bus listed before a route with one
IdleFirstList ==
    <<[route |-> "61A", destination |-> "Downtown", arrivals |-> <<>>],
      [route |-> "61B", destination |-> "Downtown", arrivals |-> <<Arrival(20)>>]>>

StopLists ==
    UNION {RouteLists(n) : n \in 0..MaxRoutes}
    \cup UNION {{MalformedList(n, k) : k \in 1..n} : n \in 1..MaxRoutes}
    \cup DensityLists

PlainList == BusyList(1)

Body(uc, tep) == (STOP_UC :> uc) @@ (STOP_TEP :> tep)

\* the JSON bodies the feed answers with: one stop's list is arbitrary and
\* the other's is plain, or both are empty, or one stop or both are missing,
\* or a third stop comes with the two
Bodies ==
    {Body(l, PlainList) : l \in StopLists}
    \cup {Body(PlainList, l) : l \in StopLists}
    \cup {Body(<<>>, <<>>), (STOP_UC :> PlainList), (STOP_TEP :> PlainList), <<>>}
    \cup {Body(<<>>, l) : l \in DensityLists}
    \cup {Body(KeyClashList, PlainList)}
    \cup {Body(IdleFirstList, PlainList) @@ (STOP_OTHER :> BusyList(2))}

Statuses == {200, 500}

\* what a fetch can end with: a rejected fetch, a response whose body is not
\* JSON, or a response with a JSON body
Responses ==
    {[kind |-> "network"]}
    \cup {[kind |-> "http", status |-> s] : s \in Statuses}
    \cup {[kind |-> "http", status |-> 200, json |-> b] : b \in Bodies}
    \cup {[kind |-> "http", status |-> 500, json |-> Body(PlainList, PlainList)]}

\* ------------------------------------------------------------------------
\* App.svelte: state
\* ------------------------------------------------------------------------

VARIABLES
    entriesUC,      \* RouteInformation[] shown in the left column
    entriesTep,     \* RouteInformation[] shown in the right column
    lastUpdated,    \* <<>> for null, <<t>> for the Date taken at time t
    paddingX,
    paddingY,
    phase,          \* "constructed", "mounted" or "destroyed"
    interval,       \* the setInterval timer of onMount
    now,            \* the clock
    issued,         \* fetch requests sent so far; request k is the k-th
    inflight,       \* requests sent whose fetch has not settled yet
    settled,        \* what a fetch settled with and which request it was,
                    \* until its refresh has run on
    errorLog,       \* number of console.error calls
    entry           \* one BusTimeEntry instance: its props and reactive values

view == <<entriesUC, entriesTep, lastUpdated, paddingX, paddingY>>
app == <<entriesUC, entriesTep, lastUpdated, paddingX, paddingY, phase,
         interval, now, issued, inflight, settled, errorLog>>
vars == <<app, entry>>

INTERVAL_MS == 3000

\* the clock moves in steps of one period
ClockSteps == {INTERVAL_MS}

\* ------------------------------------------------------------------------
\* App.svelte: fetchPredictions and the transform of refresh
\* ------------------------------------------------------------------------

\* fetchPredictions without the response.ok test
fetchPredictionsUnchecked(resp) ==
    IF resp.kind = "network" \/ "json" \notin DOMAIN resp
    THEN [threw |-> TRUE]
    ELSE [threw |-> FALSE, data |-> resp.json]

\* fetch rejects on a transport failure, a status outside 200..299 throws,
\* response.json() rejects when the body is not JSON
fetchPredictions(resp) ==
    IF resp.kind = "network" THEN [threw |-> TRUE]
    ELSE IF resp.status \notin 200..299 THEN [threw |-> TRUE]
    ELSE IF "json" \notin DOMAIN resp THEN [threw |-> TRUE]
    ELSE [threw |-> FALSE, data |-> resp.json]

\* a default that is not the empty list
StopListKeepsOne(data, stop) ==
    IF stop \in DOMAIN data THEN data[stop] ELSE <<[route |-> "61A", destination |-> "Downtown", arrivals |-> <<>>]>>

\* data[stop] || []
StopList(data, stop) == IF stop \in DOMAIN data THEN data[stop] ELSE <<>>

\* a.arrivals[0]?.seconds || Infinity
SortKey(a) ==
    Or(IF Len(a.arrivals) >= 1 THEN Num(a.arrivals[1].seconds) ELSE Undefined,
       Infinity)

\* the comparator handed to sort
Compare(a, b) == Minus(SortKey(a), SortKey(b))

\* a.arrivals[0] is a TypeError when a has no arrivals property
CompareThrows(a, b) == "arrivals" \notin DOMAIN a \/ "arrivals" \notin DOMAIN b

\* sort of two or more elements compares every element at least once; sort
\* of fewer never calls the comparator
SortThrows(list) ==
    /\ Len(list) >= 2
    /\ \E i, j \in 1..Len(list) : i # j /\ CompareThrows(list[i], list[j])

\* an insertion that puts x before the elements it only ties with
InsertUnstable(x, s) ==
    LET before == {i \in 1..Len(s) : SortSign(Compare(x, s[i])) <= 0}
        at == IF before = {} THEN Len(s) + 1
              ELSE CHOOSE i \in before : \A j \in before : i <= j
    IN  SubSeq(s, 1, at - 1) \o <<x>> \o SubSeq(s, at, Len(s))

\* x goes before the first element it compares less than
Insert(x, s) ==
    LET before == {i \in 1..Len(s) : SortSign(Compare(x, s[i])) < 0}
        at == IF before = {} THEN Len(s) + 1
              ELSE CHOOSE i \in before : \A j \in before : i <= j
    IN  SubSeq(s, 1, at - 1) \o <<x>> \o SubSeq(s, at, Len(s))

RECURSIVE SortPrefix(_, _)
SortPrefix(list, n) ==
    IF n = 0 THEN <<>> ELSE Insert(list[n], SortPrefix(list, n - 1))

\* a sort that leaves out the routes without a bus
SortDropsIdle(list) ==
    IF Len(list) <= 1 THEN list
    ELSE LET busy == SelectSeq(list, LAMBDA o : Len(o.arrivals) >= 1)
         IN  SortPrefix(busy, Len(busy))

\* Array.prototype.sort with the comparator: a stable insertion sort
Sort(list) == IF Len(list) <= 1 THEN list ELSE SortPrefix(list, Len(list))

MaxOf(a, b) == IF a >= b THEN a ELSE b

\* the density taken from the sum of the two lengths
PaddingXOfSum(uc, tep) == IF Len(uc) + Len(tep) <= 6 THEN 16 ELSE 4

PaddingX(uc, tep) == IF MaxOf(Len(uc), Len(tep)) <= 6 THEN 16 ELSE 4
PaddingY(uc, tep) == IF MaxOf(Len(uc), Len(tep)) <= 6 THEN 12 ELSE 3

\* ------------------------------------------------------------------------
\* BusTimeEntry.svelte
\* ------------------------------------------------------------------------

capacityInfo ==
    ("EMPTY" :> [label |-> "Empty", color |-> "#2ecc71"])
    @@ ("HALF_EMPTY" :> [label |-> "Some seats", color |-> "#f1c40f"])
    @@ ("FULL" :> [label |-> "Full", color |-> "#e74c3c"])

\* capacityInfo is an object literal, so a lookup that finds no own property
\* goes on to the properties every object inherits from Object.prototype
ObjectPrototype ==
    {"constructor", "__proto__", "hasOwnProperty", "isPrototypeOf",
     "propertyIsEnumerable", "toLocaleString", "toString", "valueOf",
     "__defineGetter__", "__defineSetter__", "__lookupGetter__", "__lookupSetter__"}

\* capacityInfo[key]: an own property, an inherited one (an object or a
\* function, without a label), or undefined
CapacityLookup(key) ==
    IF key \in DOMAIN capacityInfo THEN capacityInfo[key]
    ELSE IF key \in ObjectPrototype THEN [inherited |-> key]
    ELSE Undefined

routeColors ==
    ("61A" :> "#e74c3c") @@ ("61B" :> "#3498db") @@ ("61C" :> "#2ecc71")
    @@ ("61D" :> "#f39c12") @@ ("67" :> "#9b59b6") @@ ("69" :> "#9b59b6")
    @@ ("58" :> "#1abc9c")

Digits == <<"0", "1", "2", "3", "4", "5", "6", "7", "8", "9">>

\* `${minutes}` for a whole number >= 0
RECURSIVE NumberToString(_)
NumberToString(n) ==
    IF n < 10 THEN Digits[n + 1]
    ELSE NumberToString(n \div 10) \o Digits[(n % 10) + 1]

\* Math.ceil(seconds / 60) for whole seconds
CeilMinutes(seconds) == (seconds + 59) \div 60

\* formatTime with the boundary taken one second late
formatTimeLate(seconds) ==
    IF seconds <= 30 THEN "Approaching"
    ELSE NumberToString(CeilMinutes(seconds))

formatTime(seconds) ==
    IF seconds < 30 THEN "Approaching"
    ELSE NumberToString(CeilMinutes(seconds))

\* Array.prototype.join
RECURSIVE Join(_, _)
Join(strs, sep) ==
    IF Len(strs) = 0 THEN ""
    ELSE IF Len(strs) = 1 THEN strs[1]
    ELSE strs[1] \o sep \o Join(Tail(strs), sep)

\* arrivals.slice(1, 3)
Slice13(arrivals) == SubSeq(arrivals, 2, IF Len(arrivals) < 3 THEN Len(arrivals) ELSE 3)

Null == [t |-> "null"]

\* the props of the entry that stands for an empty column
PlaceholderProps ==
    [route |-> "No Buses Running", destination |-> "", arrivals |-> <<>>,
     paddingX |-> 16, paddingY |-> 12]

\* a new instance: the props are set, the reactive values are not computed yet
Created(props) == [props |-> props]

\* the reactive declarations, in source order
Updated(props) ==
    LET arrivals == props.arrivals
        nextArrival == IF Len(arrivals) >= 1 THEN arrivals[1] ELSE Undefined
        timeDisplay == IF nextArrival # Undefined
                       THEN formatTime(nextArrival.seconds) ELSE "N/A"
        times == [i \in 1..Len(Slice13(arrivals)) |->
                     formatTime(Slice13(arrivals)[i].seconds)]
    IN  [props |-> props,
         nextArrival |-> nextArrival,
         timeDisplay |-> timeDisplay,
         isApproaching |-> (timeDisplay = "Approaching"),
         upcomingTimes |-> Join(times, ", "),
         badgeColor |-> IF props.route \in DOMAIN routeColors
                        THEN routeColors[props.route] ELSE "#6c757d",
         capacity |-> IF nextArrival # Undefined /\ nextArrival.capacity # ""
                      THEN CapacityLookup(nextArrival.capacity)
                      ELSE Null]

\* the arrivals an entry can be given
EntrySeconds == {0, 29, 30, 60, 61, 90, 601}
EntryCapacities == {"EMPTY", "HALF_EMPTY", "FULL", "UNKNOWN_CODE", "constructor"}
EntryArrivals ==
    {[bus_id |-> "3201", capacity |-> c, seconds |-> s] :
        s \in EntrySeconds, c \in EntryCapacities}
\* the buses after the next one come with fewer capacity codes
LaterArrivals == {a \in EntryArrivals : a.capacity \in {"EMPTY", "UNKNOWN_CODE"}}
EntryArrivalLists ==
    UNION {{l \in [1..n -> EntryArrivals] : \A i \in 2..n : l[i] \in LaterArrivals} :
              n \in 0..MaxArrivals}

EntryProps ==
    {[route |-> r, destination |-> "Downtown", arrivals |-> a,
      paddingX |-> 16, paddingY |-> 12] :
        r \in {"61A", "71B"}, a \in EntryArrivalLists}

\* the component's update: every reactive declaration runs
EntryUpdate ==
    /\ "timeDisplay" \notin DOMAIN entry
    /\ entry' = Updated(entry.props)
    /\ UNCHANGED app

\* {#if capacity}<div class="capacity">({capacity.label})</div>{/if}: the
\* labels of the capacity elements of a rendered entry, none or one
CapacityLabels(e) ==
    IF e.capacity \in {Undefined, Null} THEN <<>>
    ELSE IF "label" \in DOMAIN e.capacity THEN <<e.capacity.label>>
    ELSE <<Undefined>>

\* ------------------------------------------------------------------------
\* App.svelte: the markup
\* ------------------------------------------------------------------------

\* a column whose placeholder takes the padding of the other entries
ColumnSharedPadding(list, px, py) ==
    IF Len(list) = 0
    THEN <<[PlaceholderProps EXCEPT !.paddingX = px, !.paddingY = py]>>
    ELSE [i \in 1..Len(list) |-> [paddingX |-> px, paddingY |-> py] @@ list[i]]

\* {#each list as entry (key)} <BusTimeEntry {...entry} {paddingX} {paddingY} />
\* {:else} the placeholder {/each}: the props of the entries of one column
Column(list, px, py) ==
    IF Len(list) = 0
    THEN <<PlaceholderProps>>
    ELSE [i \in 1..Len(list) |-> [paddingX |-> px, paddingY |-> py] @@ list[i]]

\* the key of an entry in the each blocks: (entry.route + entry.destination)
EntryKey(o) == o.route \o o.destination

ColumnUC == Column(entriesUC, paddingX, paddingY)
ColumnTep == Column(entriesTep, paddingX, paddingY)

\* ------------------------------------------------------------------------
\* App.svelte: the actions
\* ------------------------------------------------------------------------

\* no fetch has settled whose refresh is still to run on
NoResponse == [kind |-> "none"]

Init ==
    /\ entriesUC = <<>>
    /\ entriesTep = <<>>
    /\ lastUpdated = <<>>
    /\ paddingX = 4
    /\ paddingY = 3
    /\ phase = "constructed"
    /\ interval = [armed |-> FALSE, delay |-> 0, due |-> 0]
    /\ now = 0
    /\ issued = 0
    /\ inflight = {}
    /\ settled = NoResponse
    /\ errorLog = 0
    /\ entry = Created(PlaceholderProps)

\* refresh up to its await: one fetch request goes out
StartRefresh ==
    /\ issued' = issued + 1
    /\ inflight' = inflight \cup {issued + 1}

\* onMount that arms the timer and leaves the first cycle to the first tick
MountTimerOnly ==
    /\ phase = "constructed"
    /\ phase' = "mounted"
    /\ interval' = [armed |-> TRUE, delay |-> INTERVAL_MS, due |-> now + INTERVAL_MS]
    /\ UNCHANGED <<view, now, issued, inflight, settled, errorLog, entry>>

\* onMount: void refresh(); setInterval(refresh, 3_000)
Mount ==
    /\ phase = "constructed"
    /\ phase' = "mounted"
    /\ StartRefresh
    /\ interval' = [armed |-> TRUE, delay |-> INTERVAL_MS, due |-> now + INTERVAL_MS]
    /\ UNCHANGED <<view, now, settled, errorLog, entry>>

\* the timer fires: refresh is called again
Tick ==
    /\ settled = NoResponse
    /\ interval.armed
    /\ now >= interval.due
    /\ StartRefresh
    /\ interval' = [interval EXCEPT !.due = @ + interval.delay]
    /\ UNCHANGED <<view, phase, now, settled, errorLog, entry>>

\* a cleanup that forgets clearInterval
CleanupKeepsTimer ==
    /\ settled = NoResponse
    /\ phase = "mounted"
    /\ phase' = "destroyed"
    /\ UNCHANGED <<view, interval, now, issued, inflight, settled, errorLog, entry>>

\* the function onMount returns: clearInterval(interval)
Cleanup ==
    /\ settled = NoResponse
    /\ phase = "mounted"
    /\ phase' = "destroyed"
    /\ interval' = [interval EXCEPT !.armed = FALSE]
    /\ UNCHANGED <<view, now, issued, inflight, settled, errorLog, entry>>

\* time passes; a due timer fires before more time passes
Advance ==
    /\ settled = NoResponse
    /\ phase # "constructed"
    /\ \E d \in ClockSteps :
        /\ now + d <= MaxTime
        /\ interval.armed => now + d <= interval.due
        /\ now' = now + d
    /\ UNCHANGED <<view, phase, interval, issued, inflight, settled, errorLog, entry>>

\* the fetch of an outstanding request settles; the rest of its refresh is
\* queued as a microtask, so it runs before any timer or cleanup
Respond ==
    /\ settled = NoResponse
    /\ \E c \in inflight, resp \in Responses :
        /\ inflight' = inflight \ {c}
        /\ settled' = [req |-> c] @@ resp
    /\ UNCHANGED <<view, phase, interval, now, issued, errorLog, entry>>

\* a catch block that also gives up refreshing
CatchAndDisarm ==
    /\ errorLog' = errorLog + 1
    /\ interval' = [interval EXCEPT !.armed = FALSE]
    /\ UNCHANGED <<phase>>

\* catch (error) { console.error(error); }
Catch ==
    /\ errorLog' = errorLog + 1
    /\ UNCHANGED <<phase, interval>>

\* a refresh that takes the time stamp first and sorts afterwards
ResumeStampsFirst ==
    /\ settled # NoResponse
    /\ settled' = NoResponse
    /\ LET f == fetchPredictions(settled)
           uc == StopList(f.data, STOP_UC)
           tep == StopList(f.data, STOP_TEP)
       IN  IF f.threw THEN
               /\ Catch
               /\ UNCHANGED view
           ELSE IF SortThrows(uc) THEN
               /\ lastUpdated' = <<now>>
               /\ Catch
               /\ UNCHANGED <<entriesUC, entriesTep, paddingX, paddingY>>
           ELSE IF SortThrows(tep) THEN
               /\ lastUpdated' = <<now>>
               /\ entriesUC' = Sort(uc)
               /\ Catch
               /\ UNCHANGED <<entriesTep, paddingX, paddingY>>
           ELSE
               /\ entriesUC' = Sort(uc)
               /\ entriesTep' = Sort(tep)
               /\ lastUpdated' = <<now>>
               /\ paddingX' = PaddingX(Sort(uc), Sort(tep))
               /\ paddingY' = PaddingY(Sort(uc), Sort(tep))
               /\ UNCHANGED <<phase, interval, errorLog>>
    /\ UNCHANGED <<now, issued, inflight, entry>>

\* refresh from its await on: the statements of the try block run in order
\* until one throws
Resume ==
    /\ settled # NoResponse
    /\ settled' = NoResponse
    /\ LET f == fetchPredictions(settled)
           uc == StopList(f.data, STOP_UC)
           tep == StopList(f.data, STOP_TEP)
       IN  IF f.threw \/ SortThrows(uc) THEN
               /\ Catch
               /\ UNCHANGED view
           ELSE IF SortThrows(tep) THEN
               /\ entriesUC' = Sort(uc)
               /\ Catch
               /\ UNCHANGED <<entriesTep, lastUpdated, paddingX, paddingY>>
           ELSE
               /\ entriesUC' = Sort(uc)
               /\ entriesTep' = Sort(tep)
               /\ lastUpdated' = <<now>>
               /\ paddingX' = PaddingX(Sort(uc), Sort(tep))
               /\ paddingY' = PaddingY(Sort(uc), Sort(tep))
               /\ UNCHANGED <<phase, interval, errorLog>>
    /\ UNCHANGED <<now, issued, inflight, entry>>

Next == Mount \/ Tick \/ Cleanup \/ Advance \/ Respond \/ Resume

Spec == Init /\ [][Next]_vars

\* one BusTimeEntry on its own: created with some props, then updated
EntryInit ==
    /\ entriesUC = <<>>
    /\ entriesTep = <<>>
    /\ lastUpdated = <<>>
    /\ paddingX = 4
    /\ paddingY = 3
    /\ phase = "constructed"
    /\ interval = [armed |-> FALSE, delay |-> 0, due |-> 0]
    /\ now = 0
    /\ issued = 0
    /\ inflight = {}
    /\ settled = NoResponse
    /\ errorLog = 0
    /\ entry \in {Created(p) : p \in EntryProps}

EntryNext == EntryUpdate

SpecEntry == EntryInit /\ [][EntryNext]_vars

\* ------------------------------------------------------------------------
\* Properties
\* ------------------------------------------------------------------------

Range(f) == {f[i] : i \in DOMAIN f}

\* the fetch settled with a transport failure or a status outside 2xx
FetchFailed(resp) ==
    \/ resp.kind = "network"
    \/ resp.kind = "http" /\ (resp.status < 200 \/ resp.status > 299)

\* the fetch settled with a 2xx response whose body is JSON
FetchSucceeded(resp) ==
    /\ resp.kind = "http"
    /\ resp.status >= 200 /\ resp.status <= 299
    /\ "json" \in DOMAIN resp

\* every route object under the two tracked stops has its arrivals array
MatchesSchema(data) ==
    \A stop \in {STOP_UC, STOP_TEP} \cap DOMAIN data :
        \A o \in Range(data[stop]) : "arrivals" \in DOMAIN o

\* the next state shows exactly what the response `data` held, taken now
CommitsResponse(data) ==
    /\ Len(entriesUC') = Len(StopList(data, STOP_UC))
    /\ Range(entriesUC') = Range(StopList(data, STOP_UC))
    /\ Len(entriesTep') = Len(StopList(data, STOP_TEP))
    /\ Range(entriesTep') = Range(StopList(data, STOP_TEP))
    /\ lastUpdated' = <<now>>
    /\ <<paddingX', paddingY'>> \in {<<16, 12>>, <<4, 3>>}
    /\ paddingX' = 16 <=> (Len(entriesUC') <= 6 /\ Len(entriesTep') <= 6)

\* C1: after a successful cycle, a cycle whose fetch fails (transport failure
\* or non-2xx status) leaves entriesUC, entriesTep, lastUpdated and the
\* padding as they were.
C1_FailureIsolation ==
    [][(lastUpdated # <<>> /\ settled # NoResponse /\ FetchFailed(settled))
          => view' = view]_vars

\* a failed fetch has settled while data of an earlier cycle is on display
C1_Witness ==
    /\ lastUpdated # <<>>
    /\ entriesUC # <<>>
    /\ settled # NoResponse
    /\ FetchFailed(settled)
    /\ settled.kind = "http"

\* C2: a cycle replaces all four of entriesUC, entriesTep, lastUpdated and
\* the padding by what its response holds, or changes none of them.
C2_AtomicCommit ==
    [][settled # NoResponse =>
          \/ view' = view
          \/ FetchSucceeded(settled) /\ CommitsResponse(settled.json)]_vars

\* C3: once the cleanup has run, nothing of the view state changes any more;
\* the response of a fetch that was in flight is dropped.
C3_StaleWriteGuard == [][phase = "destroyed" => view' = view]_vars

\* a tick was due after the cleanup and a fetch is still out
C4_Witness ==
    /\ phase = "destroyed"
    /\ now >= interval.due
    /\ inflight # {}

\* C4: once the cleanup has run the timer is disarmed and no further fetch
\* request is ever sent, whenever the cleanup runs relative to the ticks.
C4_StopDisarms ==
    [][phase' = "destroyed" =>
          /\ ~interval'.armed
          /\ phase = "destroyed" => (issued' = issued /\ inflight' \subseteq inflight)]_vars

\* the first cycle has committed before the first tick
C5_Witness ==
    /\ phase = "mounted"
    /\ issued = 1
    /\ lastUpdated = <<0>>
    /\ entriesUC # <<>>
    /\ now < interval.due

\* the requests sent are the one of the mount and one per tick of a 3000 ms timer
C5_Started ==
    /\ phase = "constructed" => (issued = 0 /\ ~interval.armed)
    /\ phase # "constructed" =>
          /\ issued >= 1
          /\ interval.delay = 3000
          /\ interval.due = 3000 * issued
    /\ phase = "mounted" => (interval.armed /\ now <= interval.due)

\* C5: mounting starts exactly one cycle at once, before any tick, and arms a
\* repeating 3000 ms timer each tick of which starts one more cycle; a cycle
\* that succeeds updates the view state.
C5_StartSequence ==
    /\ []C5_Started
    /\ [][(phase = "mounted" /\ settled # NoResponse /\ FetchSucceeded(settled)
             /\ MatchesSchema(settled.json))
            => CommitsResponse(settled.json)]_vars

\* two cycles have failed and the fetch of a later one has succeeded
C6_Witness ==
    /\ phase = "mounted"
    /\ errorLog >= 2
    /\ settled # NoResponse
    /\ FetchSucceeded(settled)
    /\ MatchesSchema(settled.json)
    /\ settled.json # <<>>
    /\ lastUpdated = <<>>

\* C6: a failed cycle is caught, leaves the scheduler running with its timer
\* armed, and a later cycle whose fetch succeeds commits its data however
\* many cycles failed before.
C6_NoFailureIsFatal ==
    /\ [](phase = "mounted" => interval.armed)
    /\ [][errorLog' # errorLog =>
             (errorLog' = errorLog + 1 /\ interval' = interval /\ phase' = phase)]_vars
    /\ [][(errorLog >= 1 /\ settled # NoResponse /\ FetchSucceeded(settled)
             /\ MatchesSchema(settled.json))
            => (CommitsResponse(settled.json) /\ errorLog' = errorLog)]_vars

\* the first arrival's seconds of a route object that has arrivals
HasBus(o) == "arrivals" \in DOMAIN o /\ Len(o.arrivals) >= 1
NoBus(o) == "arrivals" \in DOMAIN o /\ Len(o.arrivals) = 0

SortedByFirstArrival(list) ==
    \A i, j \in 1..Len(list) :
        i < j =>
            /\ (HasBus(list[i]) /\ HasBus(list[j]))
                  => list[i].arrivals[1].seconds <= list[j].arrivals[1].seconds
            /\ NoBus(list[i]) => ~HasBus(list[j])

\* C7: each list on display is non-decreasing in the first arrival's seconds
\* (0 included), with the routes that have no arrivals last.
C7_SortInvariant ==
    SortedByFirstArrival(entriesUC) /\ SortedByFirstArrival(entriesTep)

\* the position a route object had in its response
RouteIndex(o) == CHOOSE i \in 1..Len(Routes) : Routes[i] = o.route

\* two route objects have equal sort keys
SameKey(a, b) ==
    \/ HasBus(a) /\ HasBus(b) /\ a.arrivals[1].seconds = b.arrivals[1].seconds
    \/ NoBus(a) /\ NoBus(b)

KeepsTies(list) ==
    \A i, j \in 1..Len(list) :
        (i < j /\ SameKey(list[i], list[j])) => RouteIndex(list[i]) < RouteIndex(list[j])

\* C8: route objects with equal sort keys are shown in the order the response
\* had them in.
C8_StableSort == KeepsTies(entriesUC) /\ KeepsTies(entriesTep)

\* a committed list holds two routes that tie
C8_Witness ==
    \E list \in {entriesUC, entriesTep} :
        /\ Len(list) >= 2
        /\ HasBus(list[1])
        /\ SameKey(list[1], list[2])

\* the minute texts of the countdowns the entries are given
MinuteTexts == (1 :> "1") @@ (2 :> "2") @@ (11 :> "11")

\* the text of ceil(seconds / 60) for seconds > 0
MinutesText(seconds) ==
    MinuteTexts[CHOOSE m \in DOMAIN MinuteTexts : 60 * (m - 1) < seconds /\ seconds <= 60 * m]

Rendered == "timeDisplay" \in DOMAIN entry

\* C9: the secondary text is made of arrivals[1] and arrivals[2] only, each as
\* ceil(seconds / 60), also below 30 seconds; it never says "Approaching".
C9_SecondaryNeverApproaching ==
    Rendered =>
        LET a == entry.props.arrivals
            text(i) == IF a[i].seconds = 0 THEN "0" ELSE MinutesText(a[i].seconds)
        IN  entry.upcomingTimes =
                (IF Len(a) <= 1 THEN ""
                 ELSE IF Len(a) = 2 THEN text(2)
                 ELSE text(2) \o ", " \o text(3))

\* C10: with a first arrival of s seconds the primary text is "Approaching",
\* and isApproaching holds, exactly when s < 30, and is ceil(s / 60) otherwise;
\* without arrivals it is "N/A" and isApproaching does not hold.
C10_PrimaryCountdown ==
    Rendered =>
        LET a == entry.props.arrivals IN
        IF Len(a) = 0
        THEN entry.timeDisplay = "N/A" /\ ~entry.isApproaching
        ELSE IF a[1].seconds < 30
        THEN entry.timeDisplay = "Approaching" /\ entry.isApproaching
        ELSE entry.timeDisplay = MinutesText(a[1].seconds) /\ ~entry.isApproaching

\* an entry whose next bus is exactly 30 seconds away has been rendered
C10_Witness ==
    /\ Rendered
    /\ Len(entry.props.arrivals) >= 2
    /\ entry.props.arrivals[1].seconds = 30
    /\ entry.timeDisplay = "1"
    /\ ~entry.isApproaching

\* a cycle has just committed: its refresh ran to the end of the try block
CycleCommits ==
    /\ settled # NoResponse
    /\ settled' = NoResponse
    /\ errorLog' = errorLog

\* C11: after every successful cycle the padding is (16, 12) when the longer
\* of the two committed lists has at most 6 routes and (4, 3) when it has 7 or
\* more; the sum of the two lengths does not count.
C11_DensityThresholds ==
    [][CycleCommits =>
          LET a == Len(entriesUC')
              b == Len(entriesTep')
          IN  /\ (a <= 6 /\ b <= 6) => <<paddingX', paddingY'>> = <<16, 12>>
              /\ (a >= 7 \/ b >= 7) => <<paddingX', paddingY'>> = <<4, 3>>]_vars

\* six routes on one side and one on the other are on display, spaciously
C11_Witness ==
    /\ Len(entriesUC) = 6
    /\ Len(entriesTep) = 1
    /\ lastUpdated = <<now>>
    /\ <<paddingX, paddingY>> = <<16, 12>>

\* what the placeholder rule asks of one column
PlaceholderRule(list, column) ==
    IF list = <<>>
    THEN /\ Len(column) = 1
         /\ column[1].route = "No Buses Running"
         /\ column[1].destination = ""
         /\ column[1].arrivals = <<>>
         /\ column[1].paddingX = 16
         /\ column[1].paddingY = 12
    ELSE /\ Len(column) = Len(list)
         /\ \A i \in 1..Len(list) :
               /\ column[i].route = list[i].route
               /\ column[i].route # "No Buses Running"
               /\ column[i].destination = list[i].destination
               /\ "arrivals" \in DOMAIN list[i] => column[i].arrivals = list[i].arrivals
               /\ column[i].paddingX = paddingX
               /\ column[i].paddingY = paddingY

\* C12: in every state an empty column shows exactly one entry "No Buses
\* Running" with empty destination, no arrivals and padding (16, 12) whatever
\* the density is; a non-empty column shows one entry per route object, in
\* list order, each with the current density, and no placeholder.
C12_PlaceholderRule ==
    /\ PlaceholderRule(entriesUC, ColumnUC)
    /\ PlaceholderRule(entriesTep, ColumnTep)

\* after a commit: an empty column beside a compact one
C12_Witness ==
    /\ lastUpdated # <<>>
    /\ entriesUC = <<>>
    /\ Len(entriesTep) = 7
    /\ <<paddingX, paddingY>> = <<4, 3>>

\* C13: lastUpdated changes only in the commit of a successful cycle, to the
\* time of that commit, and never decreases, overlapping cycles included.
C13_LastUpdatedMonotone ==
    [][/\ lastUpdated' # lastUpdated =>
             (CycleCommits /\ FetchSucceeded(settled) /\ lastUpdated' = <<now>>)
       /\ lastUpdated # <<>> =>
             (lastUpdated' # <<>> /\ lastUpdated'[1] >= lastUpdated[1])]_vars

\* a later response is about to commit over an earlier commit while another
\* cycle is still outstanding
C13_Witness ==
    /\ lastUpdated # <<>>
    /\ lastUpdated[1] < now
    /\ inflight # {}
    /\ settled # NoResponse
    /\ FetchSucceeded(settled)
    /\ MatchesSchema(settled.json)

\* the next state shows `list` (in some order) in the column `entries`
Shows(entries, list) == Len(entries) = Len(list) /\ Range(entries) = Range(list)

\* the body lacks the key of `stop` and what it has matches the schema
LacksStop(resp, stop) ==
    /\ FetchSucceeded(resp)
    /\ stop \notin DOMAIN resp.json
    /\ MatchesSchema(resp.json)

\* C14: a successful response that lacks a tracked stop's key is no failure:
\* that stop's list becomes empty, whatever was shown before, and the other
\* stop's list, lastUpdated and the padding are committed from the response.
C14_AbsentStopKey ==
    [][(settled # NoResponse /\ settled' = NoResponse) =>
          LET Other(stop) == IF stop \in DOMAIN settled.json
                             THEN settled.json[stop] ELSE <<>>
              Committed ==
                  /\ errorLog' = errorLog
                  /\ lastUpdated' = <<now>>
                  /\ <<paddingX', paddingY'>> =
                        IF Len(entriesUC') <= 6 /\ Len(entriesTep') <= 6
                        THEN <<16, 12>> ELSE <<4, 3>>
          IN  /\ LacksStop(settled, STOP_UC) =>
                    /\ entriesUC' = <<>>
                    /\ Shows(entriesTep', Other(STOP_TEP))
                    /\ Committed
              /\ LacksStop(settled, STOP_TEP) =>
                    /\ entriesTep' = <<>>
                    /\ Shows(entriesUC', Other(STOP_UC))
                    /\ Committed]_vars

\* a response without the key of the first stop has arrived while that stop
\* shows a non-empty list
C14_Witness ==
    /\ entriesUC # <<>>
    /\ settled # NoResponse
    /\ LacksStop(settled, STOP_UC)
    /\ STOP_TEP \in DOMAIN settled.json

\* C15: the capacity label of an entry depends on arrivals[0].capacity only:
\* "Empty" for EMPTY, "Some seats" for HALF_EMPTY, "Full" for FULL, and no
\* capacity label for any other string or when there are no arrivals.
C15_CapacityLabel ==
    Rendered =>
        LET a == entry.props.arrivals
            code == IF Len(a) >= 1 THEN a[1].capacity ELSE ""
        IN  CapacityLabels(entry) =
                CASE code = "EMPTY" -> <<"Empty">>
                  [] code = "HALF_EMPTY" -> <<"Some seats">>
                  [] code = "FULL" -> <<"Full">>
                  [] OTHER -> <<>>

\* C16: within one column the key of an entry stands for the pair (route,
\* destination): two entries of a list have the same key exactly when they
\* have the same route and the same destination.
C16_EntryIdentity ==
    \A list \in {entriesUC, entriesTep} :
        \A i, j \in 1..Len(list) :
            (list[i].route = list[j].route /\ list[i].destination = list[j].destination)
                <=> (EntryKey(list[i]) = EntryKey(list[j]))

\* C17: at no time are two fetch cycles outstanding: a tick that fires while
\* the fetch of an earlier cycle has not settled starts no second fetch.
C17_NoOverlap == Cardinality(inflight) <= 1

\* the requests whose cycle is over
Completed == {c \in 1..issued : c \notin inflight /\ (settled # NoResponse => c # settled.req)}

\* C18: once the view shows the data of the cycle started at tick k, no later
\* commit replaces it with the data of a cycle started before tick k. While
\* no cycle has failed every completed cycle has committed, so a commit must
\* then be of a request newer than every completed one.
C18_FreshnessInRequestOrder ==
    [][(CycleCommits /\ errorLog = 0) =>
          \A c \in Completed : c < settled.req]_vars

\* C19: in every state after the first successful commit the padding is
\* (16, 12) if the longer of the two displayed lists has at most 6 entries
\* and (4, 3) otherwise.
C19_DensityMatchesLists ==
    lastUpdated # <<>> =>
        <<paddingX, paddingY>> =
            IF Len(entriesUC) <= 6 /\ Len(entriesTep) <= 6 THEN <<16, 12>> ELSE <<4, 3>>

\* how often o occurs in list
Count(list, o) == Cardinality({i \in 1..Len(list) : list[i] = o})

IsPermutation(a, b) ==
    /\ Len(a) = Len(b)
    /\ \A o \in Range(a) \cup Range(b) : Count(a, o) = Count(b, o)

\* C20: after a successful cycle the list committed for each tracked stop is a
\* permutation of the list the response has under that stop's key, route
\* objects unchanged, and nothing under another key reaches the view.
C20_TransformOnlyReorders ==
    [][(CycleCommits /\ FetchSucceeded(settled)) =>
          /\ IsPermutation(entriesUC', StopList(settled.json, STOP_UC))
          /\ IsPermutation(entriesTep', StopList(settled.json, STOP_TEP))
          /\ lastUpdated' = <<now>>
          /\ paddingX' = PaddingX(entriesUC', entriesTep')
          /\ paddingY' = PaddingY(entriesUC', entriesTep')]_vars

\* a response with a third stop's data and a list that is not in display
\* order has arrived
C20_Witness ==
    /\ settled # NoResponse
    /\ FetchSucceeded(settled)
    /\ STOP_OTHER \in DOMAIN settled.json
    /\ settled.json[STOP_UC] = IdleFirstList
    /\ entriesUC # <<IdleFirstList[2], IdleFirstList[1]>>

====
